---- MODULE Spec2Model ----
(***************************************************************************)
(* CHIMERA Back-Test Workbench (lay-engine-backtest frontend).             *)
(*                                                                         *)
(* The React components are modelled as state machines over their state    *)
(* hooks:                                                                  *)
(*   ResultsPanel    (running P&L of a simulation response)  SpecResults   *)
(*   StrategyEditor  (rules list, rule cards, import/export) SpecEditor    *)
(*   App, DataBrowser (market loading, handleRun, results)   Spec          *)
(***************************************************************************)
EXTENDS Integers, Sequences, FiniteSets

VARIABLES
    \* ---- ResultsPanel
    results,        \* App state `results`: Null or the value handed to setResults
    panel,          \* what ResultsPanel rendered for `results` (NotRendered before)
    \* ---- StrategyEditor
    strategy,       \* App state `strategy`: Null or the Strategy object
    rendered,       \* StrategyEditor has rendered the current `strategy`
    cards,          \* the RuleCards of the last render, in display order
    prev,           \* strategy.rules as it was when the last render started
    lastEdit,       \* the card handler that ran since the last render, if any
    now,            \* Date.now()
    file,           \* the Strategy parsed from the last imported file, no edit since
    download,       \* the text of the last exported file, no edit since
    \* ---- App
    selectedDate,   \* App state `selectedDate`
    selectedMarkets,\* App state `selectedMarkets`
    running,        \* App state `running`
    inflight,       \* the simulation requests sent and not yet answered
    lastRun,        \* how the last finished handleRun ended, and `results` as its answer found it
    \* ---- DataBrowser
    dates,          \* DataBrowser state `dates`
    dbDate,         \* DataBrowser state `selectedDate` (the date picker's value)
    marketsData,    \* DataBrowser state `marketsData`
    loading,        \* DataBrowser state `loading`
    fetches         \* the dates of the fetchMarkets calls not yet answered

panelVars  == <<results, panel>>
editorVars == <<strategy, rendered, cards, prev, lastEdit, now, file, download>>
appVars    == <<selectedDate, selectedMarkets, running, inflight, lastRun>>
browserVars == <<dates, dbDate, marketsData, loading, fetches>>
vars       == <<results, panel, strategy, rendered, cards, prev, lastEdit, now,
                file, download, selectedDate, selectedMarkets, running, inflight,
                lastRun, dates, dbDate, marketsData, loading, fetches>>

\* JavaScript null (useState(null), value_high: null).
Null == [t |-> "null"]

(***************************************************************************)
(* JavaScript numeric values as ResultsPanel meets them: a number, NaN, or *)
(* undefined (the value of a property the object does not have).           *)
(***************************************************************************)
Num(n)    == [t |-> "number", v |-> n]
NaN       == [t |-> "NaN", v |-> 0]
Undefined == [t |-> "undefined", v |-> 0]

IsNumber(x) == x.t = "number"

\* a + b for a, b in number | NaN | undefined: ToNumber(undefined) is NaN and
\* NaN is absorbing.
JsAdd(a, b) ==
    IF IsNumber(a) /\ IsNumber(b) THEN Num(a.v + b.v) ELSE NaN

\* x.toFixed(2): defined on every value of type number (NaN included, "NaN");
\* a TypeError on undefined.
ToFixed(x) ==
    IF x.t = "undefined" THEN [t |-> "TypeError"]
    ELSE [t |-> "text", of |-> x]

\* x?.toFixed(2): undefined short-circuits to undefined.
OptToFixed(x) ==
    IF x.t = "undefined" THEN [t |-> "undefined"] ELSE ToFixed(x)

\* --------------------------------------------------------------- bounds
MaxOutcomes == 3

\* --------------------------------------------------------------- ResultsPanel
ProfitInputs    == {Num(0 - 3), Num(0), Num(5), Undefined}
StakeInputs     == {Num(1), Undefined}
LiabilityInputs == {Num(2), Undefined}

BetOutcomes ==
    [market_id : {"m1"}, profit : ProfitInputs, stake : StakeInputs,
     liability : LiabilityInputs]

OutcomeLists ==
    UNION { [1..n -> BetOutcomes] : n \in 0..MaxOutcomes }

\* The outcome lists of the responses that replace an already rendered one.
NextOutcomeLists == UNION { [1..n -> BetOutcomes] : n \in 0..1 }

\* A successful simulation response (only the part ResultsPanel reads).
Response(outcomes) == [t |-> "response", bet_outcomes |-> outcomes]

\* The map callback of ResultsPanel with the accumulator threaded through:
\* runningPnl += o.profit; return { ...o, running_pnl: runningPnl }.
RECURSIVE MapRunning(_, _)
MapRunningNoAccumulate(outcomes, runningPnl) ==
    [i \in 1..Len(outcomes) |->
        [o |-> outcomes[i], running_pnl |-> JsAdd(Num(0), outcomes[i].profit)]]

MapRunning(outcomes, runningPnl) ==
    IF outcomes = <<>> THEN <<>>
    ELSE LET acc == JsAdd(runningPnl, Head(outcomes).profit)
         IN  <<[o |-> Head(outcomes), running_pnl |-> acc]>>
                 \o MapRunning(Tail(outcomes), acc)

\* One table row: the cells that call toFixed.
Row(r) ==
    [o           |-> r.o,
     running_pnl |-> r.running_pnl,
     stakeCell   |-> OptToFixed(r.o.stake),
     liabCell    |-> OptToFixed(r.o.liability),
     profitCell  |-> OptToFixed(r.o.profit),
     runningCell |-> ToFixed(r.running_pnl)]

RowThrows(row) == row.runningCell.t = "TypeError"

\* ResultsPanel({ results }): the placeholder for no results, otherwise the
\* table of outcomesWithRunning; a throw inside render leaves nothing rendered.
ResultsPanel(res) ==
    IF res = Null THEN [t |-> "placeholder"]
    ELSE LET outcomesWithRunning == MapRunning(res.bet_outcomes, Num(0))
             rows == [i \in 1..Len(outcomesWithRunning) |->
                          Row(outcomesWithRunning[i])]
         IN  IF \E i \in 1..Len(rows) : RowThrows(rows[i])
             THEN [t |-> "error"]
             ELSE [t |-> "table", rows |-> rows]

NotRendered == [t |-> "none"]

EditorIdle ==
    /\ strategy = Null /\ rendered = FALSE /\ cards = <<>> /\ prev = <<>>
    /\ lastEdit = [kind |-> "none"] /\ now = 0 /\ file = Null /\ download = Null

AppIdle ==
    /\ selectedDate = "" /\ selectedMarkets = <<>> /\ running = FALSE
    /\ inflight = <<>> /\ lastRun = [kind |-> "none"]

BrowserIdle ==
    /\ dates = <<>> /\ dbDate = "" /\ marketsData = Null /\ loading = FALSE
    /\ fetches = <<>>

InitResults ==
    /\ results \in {Null} \cup { Response(os) : os \in OutcomeLists }
    /\ panel = NotRendered
    /\ EditorIdle
    /\ AppIdle
    /\ BrowserIdle

\* React renders ResultsPanel with the current `results`.
RenderResultsPanel ==
    /\ panel' = ResultsPanel(results)
    /\ panel' # panel
    /\ UNCHANGED <<results, editorVars, appVars, browserVars>>

\* App hands ResultsPanel another `results` value (setResults).
ReceiveResults ==
    /\ panel # NotRendered
    /\ \E os \in NextOutcomeLists : results' = Response(os)
    /\ results' # results
    /\ panel' = NotRendered
    /\ UNCHANGED <<editorVars, appVars, browserVars>>

NextResults == RenderResultsPanel \/ ReceiveResults

SpecResults == InitResults /\ [][NextResults]_vars

\* --------------------------------------------------------------- data model
MaxRules == 3
MaxClock == 1

\* The rule that addRule appends: its condition and its action.
DefaultCondition ==
    [field |-> "fav_lay_odds", operator |-> "lt", value |-> 2, value_high |-> Null]

DefaultAction == [target |-> "favourite", bet_type |-> "LAY", stake |-> 1]

\* `RULE_${Date.now()}`: the prefix and the clock reading.
NewRuleId(t) == <<"RULE_", t>>

NewRule(newId, priority) ==
    [id            |-> newId,
     name          |-> "New Rule",
     priority      |-> priority,
     conditions    |-> <<DefaultCondition>>,
     actions       |-> <<DefaultAction>>,
     stop_on_match |-> TRUE]

\* The ids of the rules of the strategies that come from the server or a file.
FileRuleIds == { <<"R", 1>>, <<"R", 2>> }
PriorityInputs == {1, 2}

FileRules ==
    { [NewRule(i, p) EXCEPT !.name = "Rule"] : i \in FileRuleIds, p \in PriorityInputs }

UniqueIds(rules) ==
    \A i, j \in 1..Len(rules) : rules[i].id = rules[j].id => i = j

\* Every Strategy of up to MaxRules rules with pairwise distinct ids, in any
\* stored order and with any priorities.
Strategies ==
    { [id |-> "S1", name |-> "Strategy", rules |-> rs] :
        rs \in { q \in UNION { [1..n -> FileRules] : n \in 0..MaxRules } :
                    UniqueIds(q) } }

\* --------------------------------------------------------------- JSON
\* JSON.stringify: an object becomes the list of its members, an array the list
\* of its elements, a scalar a token that names its type.
JNumber(n)  == <<"number", n>>
JString(s)  == <<"string", s>>
JBool(b)    == <<"bool", IF b THEN "true" ELSE "false">>
JNull       == <<"null">>
JRuleId(i)  == <<"string", i[1], i[2]>>

StringifyCondition(c) ==
    <<JString(c.field), JString(c.operator), JNumber(c.value),
      IF c.value_high = Null THEN JNull ELSE JNumber(c.value_high.v)>>

StringifyAction(a) == <<JString(a.target), JString(a.bet_type), JNumber(a.stake)>>

StringifyRule(r) ==
    <<JRuleId(r.id), JString(r.name), JNumber(r.priority),
      [i \in 1..Len(r.conditions) |-> StringifyCondition(r.conditions[i])],
      [i \in 1..Len(r.actions) |-> StringifyAction(r.actions[i])],
      JBool(r.stop_on_match)>>

JsonStringify(s) ==
    <<JString(s.id), JString(s.name),
      [i \in 1..Len(s.rules) |-> StringifyRule(s.rules[i])]>>

\* JSON.parse of such a text.
ParseCondition(t) ==
    [field |-> t[1][2], operator |-> t[2][2], value |-> t[3][2],
     value_high |-> IF t[4][1] = "null" THEN Null ELSE Num(t[4][2])]

ParseAction(t) == [target |-> t[1][2], bet_type |-> t[2][2], stake |-> t[3][2]]

ParseRule(t) ==
    [id            |-> <<t[1][2], t[1][3]>>,
     name          |-> t[2][2],
     priority      |-> t[3][2],
     conditions    |-> [i \in 1..Len(t[4]) |-> ParseCondition(t[4][i])],
     actions       |-> [i \in 1..Len(t[5]) |-> ParseAction(t[5][i])],
     stop_on_match |-> t[6][2] = "true"]

JsonParse(text) ==
    [id |-> text[1][2], name |-> text[2][2],
     rules |-> [i \in 1..Len(text[3]) |-> ParseRule(text[3][i])]]

\* --------------------------------------------------------------- StrategyEditor
\* The comparator of the render's sort: (a, b) => a.priority - b.priority.
Compare(a, b) == a.priority - b.priority

\* Array.prototype.sort with that comparator: a stable sort (ECMAScript 2019),
\* here by insertion from the left.
RECURSIVE Insert(_, _)
Insert(r, s) ==
    IF s = <<>> THEN <<r>>
    ELSE IF Compare(s[Len(s)], r) <= 0 THEN Append(s, r)
    ELSE Append(Insert(r, SubSeq(s, 1, Len(s) - 1)), s[Len(s)])

RECURSIVE InsertBefore(_, _)
InsertBefore(r, s) ==
    IF s = <<>> THEN <<r>>
    ELSE IF Compare(s[Len(s)], r) < 0 THEN Append(s, r)
    ELSE Append(InsertBefore(r, SubSeq(s, 1, Len(s) - 1)), s[Len(s)])

RECURSIVE StableSort(_)
StableSort(rules) ==
    IF rules = <<>> THEN <<>>
    ELSE Insert(rules[Len(rules)], StableSort(SubSeq(rules, 1, Len(rules) - 1)))

RECURSIVE UnstableSort(_)
UnstableSort(rules) ==
    IF rules = <<>> THEN <<>>
    ELSE InsertBefore(rules[Len(rules)],
                      UnstableSort(SubSeq(rules, 1, Len(rules) - 1)))

\* strategy.rules.sort(...): the array the expression evaluates to, which the
\* render maps to RuleCards.
SortedRulesUnstable(rules) == UnstableSort(rules)

SortedRules(rules) == StableSort(rules)

\* strategy.rules.sort(...) sorts the receiver in place: what strategy.rules
\* holds once the render has run.
RulesAfterRenderCopy(rules) == rules

RulesAfterRender(rules) == SortedRules(rules)

\* updateRule(index, updated), with the index of the card (from 1 here).
UpdateRule(s, index, updated) ==
    [s EXCEPT !.rules = [s.rules EXCEPT ![index] = updated]]

\* deleteRule(index).
DeleteRule(s, index) ==
    [s EXCEPT !.rules = SubSeq(s.rules, 1, index - 1)
                            \o SubSeq(s.rules, index + 1, Len(s.rules))]

\* addRule(), at clock reading t.
AddRule(s, t) ==
    [s EXCEPT !.rules = Append(s.rules, NewRule(NewRuleId(t), Len(s.rules) + 1))]

\* RuleCard's update(key, val): onChange({ ...rule, [key]: val }).
RuleCardUpdate(rule, key, val) == [rule EXCEPT ![key] = val]

\* parseInt(e.target.value) || 1 for the texts typed into the priority input.
PriorityTexts == {"", "1", "2"}
ParseIntOr1(text) == IF text = "2" THEN 2 ELSE 1

NoEdit == [kind |-> "none"]

\* A fetchDefaultStrategy() answer, one of `served`, reaches onChange (on mount,
\* or after Load Default).
LoadStrategy(served) ==
    /\ strategy = Null \/ rendered
    /\ \E data \in served : strategy' = data
    /\ rendered' = FALSE
    /\ lastEdit' = NoEdit
    /\ file' = Null
    /\ download' = Null
    /\ UNCHANGED <<cards, prev, now, panelVars, appVars, browserVars>>

\* StrategyEditor renders: the rules array is sorted in place and mapped to cards.
Render ==
    /\ strategy # Null
    /\ ~rendered
    /\ prev' = strategy.rules
    /\ cards' = SortedRules(strategy.rules)
    /\ strategy' = [strategy EXCEPT !.rules = RulesAfterRender(strategy.rules)]
    /\ rendered' = TRUE
    /\ lastEdit' = NoEdit
    /\ UNCHANGED <<now, file, download, panelVars, appVars, browserVars>>

\* The card at position i changes its priority: RuleCard update -> updateRule(i, .).
EditPriority ==
    /\ rendered
    /\ \E i \in 1..Len(cards), text \in PriorityTexts :
          LET updated == RuleCardUpdate(cards[i], "priority", ParseIntOr1(text))
          IN  /\ updated # cards[i]
              /\ strategy' = UpdateRule(strategy, i, updated)
              /\ lastEdit' = [kind |-> "update", shown |-> cards[i],
                              updated |-> updated, sid |-> strategy.id,
                              sname |-> strategy.name]
    /\ rendered' = FALSE
    /\ file' = Null
    /\ download' = Null
    /\ UNCHANGED <<cards, prev, now, panelVars, appVars, browserVars>>

\* The card at position i is deleted: onDelete -> deleteRule(i).
ClickDeleteRule ==
    /\ rendered
    /\ \E i \in 1..Len(cards) :
          /\ strategy' = DeleteRule(strategy, i)
          /\ lastEdit' = [kind |-> "delete", shown |-> cards[i],
                          updated |-> cards[i], sid |-> strategy.id,
                          sname |-> strategy.name]
    /\ rendered' = FALSE
    /\ file' = Null
    /\ download' = Null
    /\ UNCHANGED <<cards, prev, now, panelVars, appVars, browserVars>>

\* "+ Add New Rule".
ClickAddRule ==
    /\ rendered
    /\ Len(strategy.rules) < MaxRules
    /\ strategy' = AddRule(strategy, now)
    /\ rendered' = FALSE
    /\ lastEdit' = NoEdit
    /\ file' = Null
    /\ download' = Null
    /\ UNCHANGED <<cards, prev, now, panelVars, appVars, browserVars>>

\* The clock advances by a millisecond.
Tick ==
    /\ now < MaxClock
    /\ now' = now + 1
    /\ UNCHANGED <<strategy, rendered, cards, prev, lastEdit, file, download,
                   panelVars, appVars, browserVars>>

\* Import JSON: the chosen file parses and its value reaches onChange.
ImportJSON ==
    /\ rendered
    /\ \E s \in Strategies :
          LET data == JsonParse(JsonStringify(s))
          IN  /\ strategy' = data
              /\ file' = data
    /\ rendered' = FALSE
    /\ lastEdit' = NoEdit
    /\ download' = Null
    /\ UNCHANGED <<cards, prev, now, panelVars, appVars, browserVars>>

\* Export JSON: the strategy of the current render is written out.
ExportJSON ==
    /\ rendered
    /\ download' = JsonStringify(strategy)
    /\ download' # download
    /\ UNCHANGED <<strategy, rendered, cards, prev, lastEdit, now, file,
                   panelVars, appVars, browserVars>>

PanelIdle == results = Null /\ panel = NotRendered

InitEditor ==
    /\ EditorIdle
    /\ PanelIdle
    /\ AppIdle
    /\ BrowserIdle

NextEditor ==
    \/ LoadStrategy(Strategies)
    \/ Render
    \/ EditPriority
    \/ ClickDeleteRule
    \/ ClickAddRule
    \/ Tick
    \/ ImportJSON
    \/ ExportJSON

SpecEditor == InitEditor /\ [][NextEditor]_vars

\* --------------------------------------------------------------- RuleCard conditions
\* ConditionRow's update(key, val): onChange({ ...condition, [key]: val }).
ConditionRowUpdate(condition, key, val) == [condition EXCEPT ![key] = val]

\* RuleCard's updateCondition(index, updated).
UpdateCondition(rule, index, updated) ==
    RuleCardUpdate(rule, "conditions", [rule.conditions EXCEPT ![index] = updated])

\* The operators chosen in the operator select, of the seven of OPERATORS.
OperatorInputs == {"lt", "eq", "between"}

\* parseFloat(e.target.value) || 0 for the texts typed into the upper-bound input.
ValueHighTexts == {"", "3"}
ParseFloatOr0(text) == IF text = "3" THEN Num(3) ELSE Num(0)

\* The operator select of condition c of the card at position i changes.
EditOperator ==
    /\ rendered
    /\ \E i \in 1..Len(cards) :
       \E c \in 1..Len(cards[i].conditions), op \in OperatorInputs :
          LET cond    == ConditionRowUpdate(cards[i].conditions[c], "operator", op)
              updated == UpdateCondition(cards[i], c, cond)
          IN  /\ updated # cards[i]
              /\ strategy' = UpdateRule(strategy, i, updated)
              /\ lastEdit' = [kind |-> "update", shown |-> cards[i],
                              updated |-> updated, sid |-> strategy.id,
                              sname |-> strategy.name]
    /\ rendered' = FALSE
    /\ file' = Null
    /\ download' = Null
    /\ UNCHANGED <<cards, prev, now, panelVars, appVars, browserVars>>

\* The upper-bound input (shown for `between` only) of condition c of the card
\* at position i changes.
EditValueHigh ==
    /\ rendered
    /\ \E i \in 1..Len(cards) :
       \E c \in 1..Len(cards[i].conditions), text \in ValueHighTexts :
          LET cond    == ConditionRowUpdate(cards[i].conditions[c], "value_high",
                                            ParseFloatOr0(text))
              updated == UpdateCondition(cards[i], c, cond)
          IN  /\ cards[i].conditions[c].operator = "between"
              /\ updated # cards[i]
              /\ strategy' = UpdateRule(strategy, i, updated)
              /\ lastEdit' = [kind |-> "update", shown |-> cards[i],
                              updated |-> updated, sid |-> strategy.id,
                              sname |-> strategy.name]
    /\ rendered' = FALSE
    /\ file' = Null
    /\ download' = Null
    /\ UNCHANGED <<cards, prev, now, panelVars, appVars, browserVars>>

\* --------------------------------------------------------------- App
MaxInflight == 2
MaxFetches == 2

Dates == {"d1", "d2"}

\* The fetchDates answer: data.dates.
DateList == <<"d1", "d2">>

\* The fetchMarkets answer of each date: d2's has no `venues` member.
MarketsData(d) ==
    IF d = "d1"
    THEN [venues |-> << [venue |-> "v1", markets |-> <<"m1", "m2">>],
                        [venue |-> "v2", markets |-> <<"m3">>] >>]
    ELSE [venues |-> Null]

\* (data.venues || []).flatMap(v => v.markets.map(m => m.market_id))
RECURSIVE FlatMapMarkets(_)
FlatMapMarkets(venues) ==
    IF venues = <<>> THEN <<>>
    ELSE Head(venues).markets \o FlatMapMarkets(Tail(venues))

AllIds(data) ==
    FlatMapMarkets(IF data.venues = Null THEN <<>> ELSE data.venues)

\* The strategy the server holds as "default" in the runs of App.
RunStrategies ==
    { [id |-> "S1", name |-> "Strategy",
       rules |-> << [NewRule(<<"R", 1>>, 1) EXCEPT !.name = "Rule"] >>] }

\* The disabled attribute of the Run Back-Test button.
RunDisabledIgnoringRunning == selectedDate = "" \/ strategy = Null

RunDisabled == running \/ selectedDate = "" \/ strategy = Null

\* What the engine may answer to POST /api/simulate, or the network failing.
ErrorBody == [t |-> "error_body", detail |-> "simulation failed"]

SimResponse(req) ==
    [t |-> "response", bet_outcomes |-> <<>>, requested_for |-> req.date]

Replies(req) ==
    { [kind |-> "network_error"],
      [kind |-> "http", ok |-> TRUE,  json |-> TRUE,  body |-> SimResponse(req)],
      [kind |-> "http", ok |-> FALSE, json |-> TRUE,  body |-> ErrorBody],
      [kind |-> "http", ok |-> FALSE, json |-> FALSE, body |-> Null] }

Failed(reply) == reply.kind = "network_error" \/ ~reply.ok

\* runSimulation: `await fetch(...)` rejects when the network fails, and
\* `r.json()` rejects when the body is not JSON; otherwise the parsed body is
\* the value, whatever the status of the response.
RunSimulation(reply) ==
    IF reply.kind = "network_error" THEN [t |-> "throw"]
    ELSE IF ~reply.json THEN [t |-> "throw"]
    ELSE [t |-> "value", data |-> reply.body]

\* The effect of DataBrowser on its selectedDate d: setLoading(true) and
\* fetchMarkets(d), whose answer is outstanding from here on.
FetchMarketsStarts(d) ==
    /\ loading' = TRUE
    /\ fetches' = Append(fetches, d)

\* The fetchDates answer of the mount effect: setDates, the last date becomes
\* the picker's value, and the effect on selectedDate runs.
DatesLoaded ==
    /\ dates = <<>>
    /\ dates' = DateList
    /\ dbDate' = DateList[Len(DateList)]
    /\ FetchMarketsStarts(DateList[Len(DateList)])
    /\ UNCHANGED <<marketsData, panelVars, editorVars, appVars>>

\* Another date is chosen in the date picker, and the effect on selectedDate runs.
PickDate ==
    /\ Len(fetches) < MaxFetches
    /\ \E i \in 1..Len(dates) :
          /\ dates[i] # dbDate
          /\ dbDate' = dates[i]
          /\ FetchMarketsStarts(dates[i])
    /\ UNCHANGED <<dates, marketsData, panelVars, editorVars, appVars>>

\* The fetchMarkets call at position k, made for date d, is answered: the
\* .then callback of DataBrowser, with onMarketsLoaded(d, data) of App.
MarketsLoaded ==
    /\ \E k \in 1..Len(fetches) :
          LET d    == fetches[k]
              data == MarketsData(d)
          IN  /\ marketsData' = data
              /\ selectedDate' = d
              /\ selectedMarkets' = AllIds(data)
              /\ fetches' = SubSeq(fetches, 1, k - 1)
                                \o SubSeq(fetches, k + 1, Len(fetches))
    /\ results' = Null
    /\ loading' = FALSE
    /\ lastRun' = [kind |-> "none"]
    /\ UNCHANGED <<dates, dbDate, panel, editorVars, running, inflight>>

\* A click on Run Back-Test: handleRun up to its await.
HandleRun ==
    /\ ~RunDisabled
    /\ rendered
    /\ Len(inflight) < MaxInflight
    /\ ~(selectedDate = "" \/ strategy = Null)
    /\ running' = TRUE
    /\ LET marketIds == IF Len(selectedMarkets) > 0 THEN selectedMarkets ELSE Null
       IN  inflight' = Append(inflight,
                              [date       |-> selectedDate,
                               strategy   |-> JsonStringify(strategy),
                               market_ids |-> marketIds])
    /\ lastRun' = [kind |-> "none"]
    /\ UNCHANGED <<selectedDate, selectedMarkets, panelVars, editorVars, browserVars>>

\* The request at position k is answered: handleRun from its await to its end.
HandleRunResumes ==
    /\ \E k \in 1..Len(inflight) :
       \E reply \in Replies(inflight[k]) :
          LET out == RunSimulation(reply)
          IN  /\ results' = IF out.t = "value" THEN out.data ELSE results
              /\ lastRun' = [kind   |-> IF Failed(reply) THEN "failed" ELSE "ok",
                             before |-> results]
              /\ inflight' = SubSeq(inflight, 1, k - 1)
                                 \o SubSeq(inflight, k + 1, Len(inflight))
    /\ running' = FALSE
    /\ UNCHANGED <<selectedDate, selectedMarkets, panel, editorVars, browserVars>>

Init ==
    /\ EditorIdle
    /\ PanelIdle
    /\ AppIdle
    /\ BrowserIdle

Next ==
    \/ LoadStrategy(RunStrategies)
    \/ Render
    \/ EditOperator
    \/ EditValueHigh
    \/ DatesLoaded
    \/ PickDate
    \/ MarketsLoaded
    \/ HandleRun
    \/ HandleRunResumes

Spec == Init /\ [][Next]_vars

\* --------------------------------------------------------------- C1, C6
Malformed(o) ==
    ~IsNumber(o.profit) \/ ~IsNumber(o.stake) \/ ~IsNumber(o.liability)

\* The first n outcomes all carry a numeric profit.
ProfitsNumeric(outcomes, n) == \A i \in 1..n : IsNumber(outcomes[i].profit)

\* C1: for every list of bet outcomes the rendered table has exactly one row per
\* outcome, row i carries outcome i unmodified, and (the profits up to i being
\* numbers) the first running P&L is the first profit and every later one is its
\* predecessor plus the row's profit.
C1_RunningPnlPrefixSum ==
    (panel # NotRendered /\ results # Null) =>
        /\ panel.t = "table"
        /\ Len(panel.rows) = Len(results.bet_outcomes)
        /\ \A i \in 1..Len(panel.rows) :
              /\ panel.rows[i].o = results.bet_outcomes[i]
              /\ ProfitsNumeric(results.bet_outcomes, i) =>
                    /\ IsNumber(panel.rows[i].running_pnl)
                    /\ panel.rows[i].running_pnl.v =
                          (IF i = 1 THEN 0 ELSE panel.rows[i - 1].running_pnl.v)
                              + results.bet_outcomes[i].profit.v

\* C1 witness: the spec's example, profits +5, -3, +5 rendered as 5, 2, 7.
C1_Witness ==
    /\ panel # NotRendered
    /\ results # Null
    /\ Len(results.bet_outcomes) = 3
    /\ ProfitsNumeric(results.bet_outcomes, 3)
    /\ [i \in 1..3 |-> results.bet_outcomes[i].profit.v] = <<5, 0 - 3, 5>>
    /\ [i \in 1..3 |-> panel.rows[i].running_pnl.v] = <<5, 2, 7>>

\* C6: when some outcome lacks profit, stake or liability the panel fails as a
\* whole: no table of running P&L is rendered.
C6_MalformedOutcomeFails ==
    (/\ panel # NotRendered
     /\ results # Null
     /\ \E i \in 1..Len(results.bet_outcomes) : Malformed(results.bet_outcomes[i]))
        => panel.t = "error"

\* --------------------------------------------------------------- C2, C5, C7
ValidResults(res) == res = Null \/ res.t = "response"

\* C2: when the simulation call of a handleRun failed (it threw, or the engine
\* answered with a non-success response), `results` after handleRun finished is
\* what it was before, and it is no failure stored as a result.
C2_FailedRunKeepsResults ==
    lastRun.kind = "failed" =>
        /\ results = lastRun.before
        /\ ValidResults(results)

InvalidRange(cond) == cond.operator = "between" /\ cond.value_high = Null

HasInvalidRange(s) ==
    \E i \in 1..Len(s.rules) :
       \E c \in 1..Len(s.rules[i].conditions) : InvalidRange(s.rules[i].conditions[c])

\* C5: no simulation request that handleRun sent carries a Strategy with a
\* condition whose operator is `between` and whose value_high is null.
C5_NoInvalidRangeSent ==
    \A k \in 1..Len(inflight) : ~HasInvalidRange(JsonParse(inflight[k].strategy))

\* C7: at most one simulation request is in flight, and `running` is true
\* exactly while one is: a run starts only with `running` false and `running`
\* goes back to false only when its request is answered.
C7_SingleRequestInFlight ==
    /\ Len(inflight) <= 1
    /\ running <=> Len(inflight) = 1

\* C7 witness: a second back-test is outstanding after a first one was answered.
C7_Witness ==
    /\ running
    /\ Len(inflight) = 1
    /\ results # Null
    /\ results.t = "response"

\* --------------------------------------------------------------- C3, C4, C8, C9, C10
\* C3: a Strategy imported from a file, rendered and exported with no edit in
\* between is exported equal to the imported one, rule order included.
C3_ImportExportRoundTrip ==
    (file # Null /\ download # Null) => JsonParse(download) = file

\* C4: no two rules of the Strategy have the same id.
C4_UniqueRuleIds ==
    strategy # Null => UniqueIds(strategy.rules)

Injections(n) ==
    { p \in [1..n -> 1..n] : \A i, j \in 1..n : p[i] = p[j] => i = j }

\* `out` is `in` reordered, ascending in priority, rules of equal priority in
\* their order in `in`.
IsStablePriorityOrder(out, in) ==
    /\ Len(out) = Len(in)
    /\ \E p \in Injections(Len(in)) :
          /\ \A i \in 1..Len(out) : out[i] = in[p[i]]
          /\ \A i, j \in 1..Len(out) :
                i < j => /\ out[i].priority <= out[j].priority
                         /\ out[i].priority = out[j].priority => p[i] < p[j]

\* C8: the cards the editor presents are the stored rules in ascending priority,
\* rules of equal priority in their stored order.
C8_CardsInStablePriorityOrder ==
    rendered => IsStablePriorityOrder(cards, prev)

\* C8 witness: a render that had to reorder the stored rules and that shows two
\* different rules of the same priority.
C8_Witness ==
    /\ rendered
    /\ cards # prev
    /\ \E i, j \in 1..Len(cards) :
          i < j /\ cards[i].priority = cards[j].priority /\ cards[i] # cards[j]

\* C9: rendering the StrategyEditor leaves the stored order of strategy.rules
\* as it was.
C9_RenderKeepsStoredOrder ==
    rendered => strategy.rules = prev

Count(q, seq) == Cardinality({ i \in 1..Len(seq) : seq[i] = q })

Range(seq) == { seq[i] : i \in 1..Len(seq) }

\* C10: after the onChange / onDelete of the card that shows rule R, the stored
\* rules are those stored before with R replaced / removed, every other rule as
\* it was, and the Strategy's id and name as they were.
C10_CardEditsItsOwnRule ==
    lastEdit.kind # "none" =>
        /\ strategy.id = lastEdit.sid
        /\ strategy.name = lastEdit.sname
        /\ Len(strategy.rules) =
              IF lastEdit.kind = "delete" THEN Len(prev) - 1 ELSE Len(prev)
        /\ \A q \in Range(prev) \cup Range(strategy.rules) :
              Count(q, strategy.rules) =
                  Count(q, prev)
                    - (IF q = lastEdit.shown THEN 1 ELSE 0)
                    + (IF lastEdit.kind = "update" /\ q = lastEdit.updated
                       THEN 1 ELSE 0)

\* C10 witness: a card was deleted whose position on screen is not the position
\* its rule had in the stored list before the render.
C10_Witness ==
    /\ lastEdit.kind = "delete"
    /\ Len(prev) >= 2
    /\ \E i \in 1..Len(cards) : cards[i] = lastEdit.shown /\ prev[i] # lastEdit.shown

\* --------------------------------------------------------------- C11, C12
\* C11: once no market fetch is outstanding, the markets shown, the date held by
\* App and the auto-selected market ids are those of the date chosen in the
\* date picker; and `loading` is false only when no fetch is outstanding.
C11_MarketsOfChosenDate ==
    /\ (fetches = <<>> /\ dbDate # "") =>
          /\ marketsData = MarketsData(dbDate)
          /\ selectedDate = dbDate
          /\ selectedMarkets = AllIds(MarketsData(dbDate))
    /\ ~loading => fetches = <<>>

\* C12: whenever `results` holds a simulation response, the simulation was
\* requested for the current selectedDate.
C12_ResultsOfSelectedDate ==
    (results # Null /\ results.t = "response") =>
        results.requested_for = selectedDate

====
